---- MODULE Spec2Model ----
(***************************************************************************)
(* A model of scan_images.go: a recursive walk over a directory tree that  *)
(* classifies entries by extension, accumulates a total size and a count   *)
(* per containing directory, and a report that sorts the directories by    *)
(* count and lists those above a threshold.                                *)
(*                                                                         *)
(* Paths and names are sequences of one-character strings, so that         *)
(* substring containment, extension extraction, lower-casing and path      *)
(* splitting are computed the way the code computes them.                  *)
(***************************************************************************)
EXTENDS Integers, Sequences, FiniteSets, TLC

(* ------------------------------ bounds --------------------------------- *)
\* largest number of generated image files in one directory
MaxImg == 6

(* --------------------------- string helpers ---------------------------- *)
Sep == "/"
Dot == "."

\* the characters used, in byte order (sort.Strings compares bytes)
ByteOrder ==
  << " ", "$", ".", "/", "0", "1", "2", "3", "4", "5", "6", "7", "8", "9",
     "A", "B", "C", "D", "E", "F", "G", "H", "I", "J", "K", "L", "M", "N",
     "O", "P", "Q", "R", "S", "T", "U", "V", "W", "X", "Y", "Z", "_",
     "a", "b", "c", "d", "e", "f", "g", "h", "i", "j", "k", "l", "m", "n",
     "o", "p", "q", "r", "s", "t", "u", "v", "w", "x", "y", "z" >>

\* the rank of each character in byte order
OrdOf == [c \in { ByteOrder[i] : i \in 1..Len(ByteOrder) } |->
            CHOOSE i \in 1..Len(ByteOrder) : ByteOrder[i] = c]

Ord(c) == OrdOf[c]

UpperCase == << "A", "B", "C", "D", "E", "F", "G", "H", "I", "J", "K", "L", "M",
                "N", "O", "P", "Q", "R", "S", "T", "U", "V", "W", "X", "Y", "Z" >>
LowerCase == << "a", "b", "c", "d", "e", "f", "g", "h", "i", "j", "k", "l", "m",
                "n", "o", "p", "q", "r", "s", "t", "u", "v", "w", "x", "y", "z" >>

\* the lower-case form of each upper-case letter
LowerOf == [c \in { UpperCase[i] : i \in 1..Len(UpperCase) } |->
              LowerCase[CHOOSE i \in 1..Len(UpperCase) : UpperCase[i] = c]]

\* strings.ToLower, one character
ToLowerChar(c) == IF c \in DOMAIN LowerOf THEN LowerOf[c] ELSE c

\* strings.ToLower
ToLower(s) == [i \in 1..Len(s) |-> ToLowerChar(s[i])]

\* strings.Contains: sub occurs in s as a contiguous run of characters
Contains(s, sub) ==
  \E i \in 0..(Len(s) - Len(sub)) :
    \A j \in 1..Len(sub) : s[i + j] = sub[j]

\* index of the last separator of a path, 0 when there is none
LastSep(path) ==
  IF \E i \in 1..Len(path) : path[i] = Sep
    THEN CHOOSE i \in 1..Len(path) :
           /\ path[i] = Sep
           /\ \A j \in (i + 1)..Len(path) : path[j] # Sep
    ELSE 0

\* filepath.Ext: the suffix of the last path element beginning at its final
\* dot; empty when the last element has no dot
Ext(path) ==
  LET from == LastSep(path) + 1
      dots == {i \in from..Len(path) : path[i] = Dot}
  IN IF dots = {} THEN << >>
     ELSE LET i == CHOOSE k \in dots : \A m \in dots : m <= k
          IN SubSeq(path, i, Len(path))

\* filepath.Dir on a clean path: everything before the last separator
Dir(path) ==
  LET i == LastSep(path)
  IN IF i = 0 THEN << Dot >>
     ELSE IF i = 1 THEN << Sep >>
     ELSE SubSeq(path, 1, i - 1)

\* filepath.Base on a clean path
Base(path) == SubSeq(path, LastSep(path) + 1, Len(path))

\* filepath.Join of a clean directory path and a name
Join(dir, name) ==
  IF dir = << Sep >> THEN dir \o name ELSE dir \o << Sep >> \o name

\* byte-wise lexicographic order, as sort.Strings uses
StrLess(s, t) ==
  LET n == IF Len(s) < Len(t) THEN Len(s) ELSE Len(t)
      diff == {i \in 1..n : s[i] # t[i]}
  IN IF diff = {} THEN Len(s) < Len(t)
     ELSE LET i == CHOOSE k \in diff : \A m \in diff : k <= m
          IN Ord(s[i]) < Ord(t[i])

\* sort.Strings over a set of distinct names: each name stands after exactly
\* the names that are less than it
SortStrings(S) ==
  [i \in 1..Cardinality(S) |->
     CHOOSE x \in S : Cardinality({ y \in S : StrLess(y, x) }) = i - 1]

(* ------------------------- the program's tables ------------------------- *)
\* the keys of the imageExtensions map (every value is true; a missing key
\* reads as false)
imageExtensions ==
  { << ".", "j", "p", "g" >>,
    << ".", "j", "p", "e", "g" >>,
    << ".", "p", "n", "g" >>,
    << ".", "g", "i", "f" >>,
    << ".", "b", "m", "p" >>,
    << ".", "t", "i", "f", "f" >>,
    << ".", "s", "v", "g" >>,
    << ".", "w", "e", "b", "p" >>,
    << ".", "h", "e", "i", "c" >>,
    << ".", "h", "e", "i", "f" >>,
    << ".", "r", "a", "w" >>,
    << ".", "c", "r", "2" >>,
    << ".", "n", "e", "f" >>,
    << ".", "o", "r", "f" >>,
    << ".", "s", "r", "2" >>,
    << ".", "a", "r", "w" >>,
    << ".", "d", "n", "g" >>,
    << ".", "r", "w", "2" >> }

\* the ignore list, in order
ignoreDirs ==
  << << "W", "i", "n", "d", "o", "w", "s" >>,
     << "P", "r", "o", "g", "r", "a", "m", " ", "F", "i", "l", "e", "s" >>,
     << "S", "y", "s", "t", "e", "m", " ", "V", "o", "l", "u", "m", "e", " ", "I", "n", "f", "o", "r", "m", "a", "t", "i", "o", "n" >>,
     << "$", "R", "e", "c", "y", "c", "l", "e", ".", "B", "i", "n" >>,
     << "U", "s", "e", "r", "s" >>,
     << "S", "m", "a", "r", "t", "P", "S", "S" >>,
     << "P", "y", "t", "h", "o", "n", "3", "1", "2" >>,
     << "P", "r", "o", "g", "r", "a", "m", "D", "a", "t", "a" >> >>

\* a directory qualifies for the report when its count exceeds this
Threshold == 5

(* ------------------------- the file system input ------------------------ *)
\* name fragments used to build the trees
N_d == << "d" >>
N_p == << "p" >>
N_x == << "x" >>
N_sub == << "s", "u", "b" >>
N_in == << "i", "n" >>
N_users == << "u", "s", "e", "r", "s" >>
N_Users == << "U", "s", "e", "r", "s" >>
N_myUsers_b == << "m", "y", "U", "s", "e", "r", "s", "_", "b" >>
N_p_jpg == << "p", ".", "j", "p", "g" >>
N_b_txt == << "b", ".", "t", "x", "t" >>
N_noext == << "n", "o", "e", "x", "t" >>
N_Users_JPG == << "U", "s", "e", "r", "s", ".", "J", "P", "G" >>
N_prog == << "s", "c", "a", "n", "_", "i", "m", "a", "g", "e", "s" >>

Digits == << "0", "1", "2", "3", "4", "5", "6", "7", "8", "9" >>

\* the extensions given to generated image files, in mixed case
GenExts ==
  << << ".", "J", "P", "G" >>,
     << ".", "p", "n", "g" >>,
     << ".", "j", "p", "e", "g" >>,
     << ".", "G", "i", "f" >>,
     << ".", "h", "e", "i", "c" >>,
     << ".", "C", "R", "2" >>,
     << ".", "d", "n", "g" >> >>

\* the name of the i-th generated image file
GenName(i) ==
  (IF i < 10 THEN << Digits[i + 1] >>
   ELSE << Digits[(i \div 10) + 1], Digits[(i % 10) + 1] >>)
  \o GenExts[((i - 1) % Len(GenExts)) + 1]

\* k generated image files in directory dir
GenFiles(dir, k) ==
  { [path |-> Join(dir, GenName(i)), size |-> 10 * i + Len(dir)] : i \in 1..k }

\* the candidate roots: an ordinary directory and one whose path holds an
\* ignore-list entry
Roots == { << Sep >> \o N_d, Join(<< Sep >> \o N_Users, N_p) }

\* a path that names nothing
Nowhere == << Sep >> \o N_x

\* the tree under root r with kR, kS and kU image files in r, r/sub and
\* r/users (r/users is either empty or just over the threshold)
Tree(r, kR, kS, kU) ==
  LET sub == Join(r, N_sub)
      pj == Join(sub, N_p_jpg)
      lo == Join(r, N_users)
      up == Join(r, N_Users)
      upin == Join(up, N_in)
      my == Join(r, N_myUsers_b)
  IN [ dirs |-> { r, sub, pj, lo, up, upin, my },
       files |->
         GenFiles(r, kR) \cup GenFiles(sub, kS) \cup GenFiles(lo, kU)
         \cup GenFiles(pj, 1) \cup GenFiles(up, 2) \cup GenFiles(upin, 1)
         \cup GenFiles(my, 1)
         \cup { [path |-> Join(r, N_b_txt), size |-> 5],
                [path |-> Join(r, N_noext), size |-> 3],
                [path |-> Join(pj, N_noext), size |-> 4],
                [path |-> Join(sub, N_Users_JPG), size |-> 0] } ]

\* what each directory of tree t lists: the names of its entries
Listing(t) ==
  [d \in t.dirs |->
     { Base(e) : e \in { q \in t.dirs \cup { f.path : f \in t.files } :
                           q # d /\ Dir(q) = d } }]

\* the entries at which a read may fail, for a tree under root r
FailPlaces(r) ==
  { r, Join(r, N_sub), Join(r, N_Users), Join(Join(r, N_Users), N_in),
    Join(Join(r, N_users), GenName(1)) }

(* ------------------------------- state ---------------------------------- *)
VARIABLES
  Args,          \* os.Args: the program name, then the arguments
  tree,          \* the file system: directories, files with sizes, what each
                 \* directory lists, and the entries whose read fails
  pc,            \* where main is
  todo,          \* the entries filepath.Walk has still to visit, next first
  visited,       \* the paths the walk function was called with, in order
  totalSize,     \* scanDirectory's totalSize
  dirFileCount,  \* scanDirectory's dirFileCount: a map, here a function on its keys
  err,           \* the error the walk ended with: "nil" or "io"
  acceptedDirs,  \* what printDirectoryFileCounts returned
  out,           \* the lines written to standard output
  run,           \* which run of the program this is
  prev           \* the results of the runs before this one

vars == << Args, tree, pc, todo, visited, totalSize, dirFileCount, err,
           acceptedDirs, out, run, prev >>

\* how many times the program is run on the same tree
Runs == 2

EmptyMap == [x \in {} |-> 0]

\* one line of output; n is the number the line is formatted from
Line(kind, path, n) == [kind |-> kind, path |-> path, n |-> n]

(* ------------------------ reading the file system ----------------------- *)
IsDir(p) == p \in tree.dirs

IsFile(p) == \E f \in tree.files : f.path = p

\* info.Size()
Size(p) == (CHOOSE f \in tree.files : f.path = p).size

\* os.Lstat or the directory read fails for p: the walk function gets an error
ReadFails(p) == p \in tree.bad \/ ~(IsDir(p) \/ IsFile(p))

\* readDirNames: the names in directory p, sorted
readDirNames(p) == SortStrings(tree.names[p])

(* --------------------------- scanDirectory ------------------------------ *)
\* the ignore test done on whole path elements instead of substrings
IgnoredWholeElement(path) ==
  \E i \in 1..Len(ignoreDirs) :
    Contains(path \o << Sep >>, << Sep >> \o ignoreDirs[i] \o << Sep >>)

\* the loop over ignoreDirs finds an entry that the path contains
Ignored(path) == \E i \in 1..Len(ignoreDirs) : Contains(path, ignoreDirs[i])

\* the extension looked up without lower-casing it
IsImageCaseSensitive(path) == Ext(path) \in imageExtensions

\* imageExtensions[strings.ToLower(filepath.Ext(path))]
IsImage(path) == ToLower(Ext(path)) \in imageExtensions

\* the count set to one instead of incremented
IncrOverwrite(m, dir) ==
  [d \in DOMAIN m \cup {dir} |-> IF d = dir THEN 1 ELSE m[d]]

\* dirFileCount[dir]++
Incr(m, dir) ==
  IF dir \in DOMAIN m
    THEN [m EXCEPT ![dir] = @ + 1]
    ELSE [d \in DOMAIN m \cup {dir} |-> IF d = dir THEN 1 ELSE m[d]]

\* the entries the walk goes on to after a directory the walk function
\* accepted: the directory's path joined with each of its names, in order
Descend(p, names) == [i \in 1..Len(names) |-> Join(p, names[i])]

Walking == pc = "walk" /\ err = "nil" /\ todo # << >>

\* the error swallowed: the walk function returns nil and the walk goes on
WalkFnErrorSwallowed ==
  /\ Walking
  /\ ReadFails(Head(todo))
  /\ visited' = Append(visited, Head(todo))
  /\ todo' = Tail(todo)
  /\ UNCHANGED << Args, tree, pc, totalSize, dirFileCount, err, acceptedDirs, out, run, prev >>

\* the walk function is handed an error and returns it: the walk ends
WalkFnError ==
  /\ Walking
  /\ ReadFails(Head(todo))
  /\ visited' = Append(visited, Head(todo))
  /\ err' = "io"
  /\ todo' = << >>
  /\ UNCHANGED << Args, tree, pc, totalSize, dirFileCount, acceptedDirs, out, run, prev >>

\* an ignored directory entered all the same: nil returned instead of SkipDir
WalkFnSkipDirDescends ==
  /\ Walking
  /\ ~ReadFails(Head(todo))
  /\ IsDir(Head(todo))
  /\ (\E i \in 1..Len(ignoreDirs) : Contains(Head(todo), ignoreDirs[i]))
  /\ visited' = Append(visited, Head(todo))
  /\ \E names \in { readDirNames(Head(todo)) } :
       todo' = [i \in 1..Len(names) |-> Join(Head(todo), names[i])] \o Tail(todo)
  /\ UNCHANGED << Args, tree, pc, totalSize, dirFileCount, err, acceptedDirs, out, run, prev >>

\* a directory whose path contains an ignore-list entry: SkipDir
WalkFnSkipDir ==
  /\ Walking
  /\ ~ReadFails(Head(todo))
  /\ IsDir(Head(todo))
  /\ Ignored(Head(todo))
  /\ visited' = Append(visited, Head(todo))
  /\ todo' = Tail(todo)
  /\ UNCHANGED << Args, tree, pc, totalSize, dirFileCount, err, acceptedDirs, out, run, prev >>

\* any other directory: nothing is recorded and the walk descends into it
WalkFnDir ==
  /\ Walking
  /\ ~ReadFails(Head(todo))
  /\ IsDir(Head(todo))
  /\ ~Ignored(Head(todo))
  /\ visited' = Append(visited, Head(todo))
  /\ \E names \in { readDirNames(Head(todo)) } :
       todo' = Descend(Head(todo), names) \o Tail(todo)
  /\ UNCHANGED << Args, tree, pc, totalSize, dirFileCount, err, acceptedDirs, out, run, prev >>

\* the image file printed and counted, its size not added to the total
WalkFnImageNoTotal ==
  /\ Walking
  /\ ~ReadFails(Head(todo))
  /\ ~IsDir(Head(todo))
  /\ ToLower(Ext(Head(todo))) \in imageExtensions
  /\ out' = Append(out, Line("File", Head(todo), Size(Head(todo))))
  /\ dirFileCount' =
       [d \in DOMAIN dirFileCount \cup {Dir(Head(todo))} |->
          IF d \in DOMAIN dirFileCount /\ d # Dir(Head(todo)) THEN dirFileCount[d]
          ELSE IF d \in DOMAIN dirFileCount THEN dirFileCount[d] + 1 ELSE 1]
  /\ visited' = Append(visited, Head(todo))
  /\ todo' = Tail(todo)
  /\ UNCHANGED << Args, tree, pc, totalSize, err, acceptedDirs, run, prev >>

\* a non-directory with a recognized extension: printed, added, counted
WalkFnImage ==
  /\ Walking
  /\ ~ReadFails(Head(todo))
  /\ ~IsDir(Head(todo))
  /\ IsImage(Head(todo))
  /\ LET path == Head(todo)
         fileSize == Size(path)
     IN /\ out' = Append(out, Line("File", path, fileSize))
        /\ totalSize' = totalSize + fileSize
        /\ dirFileCount' = Incr(dirFileCount, Dir(path))
  /\ visited' = Append(visited, Head(todo))
  /\ todo' = Tail(todo)
  /\ UNCHANGED << Args, tree, pc, err, acceptedDirs, run, prev >>

\* any other non-directory: no action
WalkFnOther ==
  /\ Walking
  /\ ~ReadFails(Head(todo))
  /\ ~IsDir(Head(todo))
  /\ ~IsImage(Head(todo))
  /\ visited' = Append(visited, Head(todo))
  /\ todo' = Tail(todo)
  /\ UNCHANGED << Args, tree, pc, totalSize, dirFileCount, err, acceptedDirs, out, run, prev >>

(* ----------------------- printDirectoryFileCounts ----------------------- *)
RECURSIVE Orders(_)
\* the orders in which a range loop may yield the set S
Orders(S) ==
  IF S = {} THEN { << >> }
  ELSE UNION { { << x >> \o t : t \in Orders(S \ {x}) } : x \in S }

\* the slices the loop over the map may build: one (path, count) per key
MapSlices(m) ==
  { [i \in 1..Len(o) |-> [path |-> o[i], count |-> m[o[i]]]] : o \in Orders(DOMAIN m) }

\* the comparison given to sort.Slice
Less(a, b) == a.count > b.count

\* the sort left out: any order passes
IsSortedAnyOrder(s) == Len(s) >= 0

\* s is ordered by Less: no element is Less than one before it
IsSorted(s) == \A i, j \in 1..Len(s) : i < j => ~Less(s[j], s[i])

\* sort.Slice: some rearrangement of s that is ordered by Less (not stable)
SortSlice(s) ==
  { t \in { [i \in 1..Len(s) |-> s[o[i]]] : o \in Orders(1..Len(s)) } : IsSorted(t) }

\* the threshold test with the bound included
AcceptFromThreshold(dc) == dc.count >= Threshold

\* the test a sorted pair must pass to be printed and accepted
Accept(dc) == dc.count > Threshold

RECURSIVE SelectAccepted(_)
\* the loop over sortedDirs
SelectAccepted(s) ==
  IF s = << >> THEN << >>
  ELSE (IF Accept(Head(s)) THEN << Head(s) >> ELSE << >>) \o SelectAccepted(Tail(s))

printDirectoryFileCounts ==
  /\ pc = "totals"
  /\ \E sl \in MapSlices(dirFileCount) :
       \E sortedDirs \in SortSlice(sl) :
         LET acc == SelectAccepted(sortedDirs)
         IN /\ out' = Append(out, Line("Header", << >>, 0))
                      \o [i \in 1..Len(acc) |->
                            Line("Directory", acc[i].path, acc[i].count)]
            /\ acceptedDirs' = [i \in 1..Len(acc) |-> acc[i].path]
  /\ pc' = "reported"
  /\ UNCHANGED << Args, tree, todo, visited, totalSize, dirFileCount, err, run, prev >>

(* --------------------------------- main --------------------------------- *)
\* the argument test asking for exactly one argument
TooFewArgsUnlessOne == Len(Args) # 2

\* len(os.Args) < 2
TooFewArgs == Len(Args) < 2

\* fewer than two elements in os.Args: the usage line, and return
MainUsage ==
  /\ pc = "start"
  /\ TooFewArgs
  /\ out' = Append(out, Line("Usage", << >>, 0))
  /\ pc' = "done"
  /\ UNCHANGED << Args, tree, todo, visited, totalSize, dirFileCount, err,
                  acceptedDirs, run, prev >>

\* otherwise the root is os.Args[1] and scanDirectory starts on it
MainScan ==
  /\ pc = "start"
  /\ ~TooFewArgs
  /\ out' = Append(out, Line("Scanning", Args[2], 0))
  /\ todo' = << Args[2] >>
  /\ totalSize' = 0
  /\ dirFileCount' = EmptyMap
  /\ pc' = "walk"
  /\ UNCHANGED << Args, tree, visited, err, acceptedDirs, run, prev >>

\* scanDirectory returned an error: the error line, and return
MainScanError ==
  /\ pc = "walk"
  /\ err # "nil"
  /\ out' = Append(out, Line("Error", << >>, 0))
  /\ pc' = "done"
  /\ UNCHANGED << Args, tree, todo, visited, totalSize, dirFileCount, err,
                  acceptedDirs, run, prev >>

\* scanDirectory returned without error: the four total lines
MainTotals ==
  /\ pc = "walk"
  /\ err = "nil"
  /\ todo = << >>
  /\ out' = out \o << Line("TotalBytes", << >>, totalSize),
                      Line("TotalKB", << >>, totalSize),
                      Line("TotalMB", << >>, totalSize),
                      Line("TotalGB", << >>, totalSize) >>
  /\ pc' = "totals"
  /\ UNCHANGED << Args, tree, todo, visited, totalSize, dirFileCount, err,
                  acceptedDirs, run, prev >>

\* the accepted paths printed last to first
MainAcceptedReversed ==
  /\ pc = "reported"
  /\ out' = out \o [i \in 1..Len(acceptedDirs) |->
                      Line("Bare", acceptedDirs[Len(acceptedDirs) + 1 - i], 0)]
  /\ pc' = "done"
  /\ UNCHANGED << Args, tree, todo, visited, totalSize, dirFileCount, err,
                  acceptedDirs, run, prev >>

\* the loop over acceptedDirs: each path on a line of its own
MainAccepted ==
  /\ pc = "reported"
  /\ out' = out \o [i \in 1..Len(acceptedDirs) |-> Line("Bare", acceptedDirs[i], 0)]
  /\ pc' = "done"
  /\ UNCHANGED << Args, tree, todo, visited, totalSize, dirFileCount, err,
                  acceptedDirs, run, prev >>

\* the program is started again on the same arguments and the same tree; what
\* the finished run produced is kept for comparison
Rerun ==
  /\ pc = "done"
  /\ run < Runs
  /\ prev' = Append(prev, [err |-> err, totalSize |-> totalSize,
                           dirFileCount |-> dirFileCount,
                           acceptedDirs |-> acceptedDirs, out |-> out])
  /\ run' = run + 1
  /\ pc' = "start"
  /\ todo' = << >>
  /\ visited' = << >>
  /\ totalSize' = 0
  /\ dirFileCount' = EmptyMap
  /\ err' = "nil"
  /\ acceptedDirs' = << >>
  /\ out' = << >>
  /\ UNCHANGED << Args, tree >>

(* --------------------------- specifications ----------------------------- *)
\* the argument lists: none, a root, or a root followed by one more argument
ArgLists ==
  { << N_prog >> } \cup
  { << N_prog, r >> : r \in Roots } \cup
  { << N_prog, r, Nowhere >> : r \in Roots }

Init ==
  /\ Args \in ArgLists
  /\ \E kR \in 0..MaxImg, kS \in 0..MaxImg, kU \in {0, Threshold + 1} :
       LET r == IF Len(Args) < 2 THEN CHOOSE x \in Roots : ~Ignored(x) ELSE Args[2]
           t == Tree(r, kR, kS, kU)
       IN \E bad \in { {} } \cup { {p} : p \in FailPlaces(r) } :
            tree = [dirs |-> t.dirs, files |-> t.files, names |-> Listing(t),
                    bad |-> bad]
  /\ pc = "start"
  /\ todo = << >>
  /\ visited = << >>
  /\ totalSize = 0
  /\ dirFileCount = EmptyMap
  /\ err = "nil"
  /\ acceptedDirs = << >>
  /\ out = << >>
  /\ run = 1
  /\ prev = << >>

Next ==
  \/ MainUsage
  \/ MainScan
  \/ WalkFnError
  \/ WalkFnSkipDir
  \/ WalkFnDir
  \/ WalkFnImage
  \/ WalkFnOther
  \/ MainScanError
  \/ MainTotals
  \/ printDirectoryFileCounts
  \/ MainAccepted

Spec == Init /\ [][Next]_vars

\* the program runs on: nothing but its own return stops it
FairSpec == Spec /\ WF_vars(Next)

NextTwice == Next \/ Rerun

SpecTwice == Init /\ [][NextTwice]_vars

(* ------------------------- vocabulary of the claims --------------------- *)
\* the root the scan was given
Root == Args[2]

\* scanDirectory has returned, and without error
ScanReturnedOK ==
  /\ Len(Args) >= 2
  /\ err = "nil"
  /\ \/ pc = "walk" /\ todo = << >>
     \/ pc \in {"totals", "reported", "done"}

\* printDirectoryFileCounts has returned
Reported == Len(Args) >= 2 /\ err = "nil" /\ pc \in {"reported", "done"}

\* the run ended after a successful scan and report
DoneOK == Reported /\ pc = "done"

\* path p lies beneath directory d, at any depth
Beneath(p, d) ==
  IF d = << Sep >> THEN Len(p) > 1 /\ p[1] = Sep
  ELSE /\ Len(p) > Len(d) + 1
       /\ SubSeq(p, 1, Len(d)) = d
       /\ p[Len(d) + 1] = Sep

\* path p is an entry of directory d itself
ChildOf(p, d) ==
  /\ Beneath(p, d)
  /\ \A i \in (Len(d) + 2)..Len(p) : p[i] # Sep

\* the path holds an ignore-list entry somewhere, letter for letter
HoldsIgnoreEntry(p) ==
  \E i \in 1..Len(ignoreDirs) :
    \E k \in 1..Len(p) :
      /\ p[k] = ignoreDirs[i][1]
      /\ k + Len(ignoreDirs[i]) - 1 <= Len(p)
      /\ SubSeq(p, k, k + Len(ignoreDirs[i]) - 1) = ignoreDirs[i]

\* the directories whose path holds an ignore-list entry
IgnoredDirs == { d \in tree.dirs : HoldsIgnoreEntry(d) }

\* p lies beneath an ignored directory
UnderIgnoredDir(p) == \E d \in tree.dirs : Beneath(p, d) /\ HoldsIgnoreEntry(d)

\* the name ends in a recognized extension, whatever the case of its letters
Recognized(p) ==
  \E e \in imageExtensions :
    /\ Len(p) >= Len(e)
    /\ p[Len(p) - Len(e) + 1] = Dot
    /\ ToLower(SubSeq(p, Len(p) - Len(e) + 1, Len(p))) = e

\* the files a scan of the root is to count
CountedFiles ==
  { f \in tree.files :
      Beneath(f.path, Root) /\ Recognized(f.path) /\ ~UnderIgnoredDir(f.path) }

RECURSIVE SumSizes(_)
SumSizes(F) ==
  IF F = {} THEN 0
  ELSE LET f == CHOOSE g \in F : TRUE IN f.size + SumSizes(F \ {f})

\* the count the map gives a directory: a missing key reads as 0
CountOf(m, d) == IF d \in DOMAIN m THEN m[d] ELSE 0

\* the lines of one kind, in order
RECURSIVE LinesOf(_, _)
LinesOf(o, kind) ==
  IF o = << >> THEN << >>
  ELSE (IF Head(o).kind = kind THEN << Head(o) >> ELSE << >>) \o LinesOf(Tail(o), kind)

RECURSIVE SumN(_)
SumN(o) == IF o = << >> THEN 0 ELSE Head(o).n + SumN(Tail(o))

RECURSIVE SumCounts(_, _)
SumCounts(m, K) ==
  IF K = {} THEN 0
  ELSE LET k == CHOOSE x \in K : TRUE IN m[k] + SumCounts(m, K \ {k})

PathsOf(o) == [i \in 1..Len(o) |-> o[i].path]

NoRepeats(s) == \A i, j \in 1..Len(s) : i # j => s[i] # s[j]

Range(s) == { s[i] : i \in 1..Len(s) }

(* -------------------------------- claims -------------------------------- *)
\* C1: once scanDirectory has returned without error, the total size is the
\* exact sum of the sizes of the files under the root whose name ends,
\* case-insensitively, in a recognized extension and that are not beneath an
\* ignored directory; every other file contributes nothing.
C1_TotalIsExactSum ==
  ScanReturnedOK => totalSize = SumSizes(CountedFiles)

\* a finished scan that counted an upper-case .JPG file, with files of
\* unrecognized and of no extension and image files beneath ignored
\* directories in the tree
C1_Witness ==
  /\ ScanReturnedOK
  /\ pc = "done"
  /\ \E f \in CountedFiles : Ext(f.path) = << ".", "J", "P", "G" >> /\ f.size > 0
  /\ \E f \in tree.files : Beneath(f.path, Root) /\ Ext(f.path) = << >>
  /\ \E f \in tree.files : Recognized(f.path) /\ UnderIgnoredDir(f.path)
  /\ \E f \in tree.files : Ext(f.path) = << ".", "t", "x", "t" >> /\ f.size > 0

\* C2: at every moment, for every directory whose path holds an ignore-list
\* entry as a literal substring (the root included), no file beneath it has a
\* "File:" line, no directory at or beneath it is a key of the count map, and
\* the total holds nothing but the sizes on the "File:" lines; when the root
\* itself is such a directory nothing at all is printed or counted.
C2_IgnoredContributeNothing ==
  /\ \A d \in IgnoredDirs :
       /\ \A i \in 1..Len(out) : out[i].kind = "File" => ~Beneath(out[i].path, d)
       /\ \A k \in DOMAIN dirFileCount : k # d /\ ~Beneath(k, d)
  /\ totalSize = SumN(LinesOf(out, "File"))
  /\ (Len(Args) >= 2 /\ HoldsIgnoreEntry(Root)) =>
       /\ totalSize = 0
       /\ dirFileCount = EmptyMap
       /\ LinesOf(out, "File") = << >>

\* a finished scan that printed files, of a tree that has image files beneath
\* a directory ignored for a substring that is not a whole path element
C2_Witness ==
  /\ DoneOK
  /\ LinesOf(out, "File") # << >>
  /\ \E d \in IgnoredDirs :
       /\ Base(d) \notin Range(ignoreDirs)
       /\ Join(d, GenName(1)) \notin Range(visited)
       /\ d \in Range(visited)
       /\ \E f \in tree.files : ChildOf(f.path, d) /\ Recognized(f.path)

\* C3 as stated: after a scan without error the map gives every directory of
\* the tree the number of its direct image-file children.
C3_AsStated ==
  ScanReturnedOK =>
    \A d \in tree.dirs :
      CountOf(dirFileCount, d) =
        Cardinality({ f \in tree.files : ChildOf(f.path, d) /\ Recognized(f.path) })

\* C3, amended: after a scan without error the map gives every directory that
\* is neither ignored nor beneath an ignored directory the number of its
\* direct image-file children, gives every other directory nothing, and has
\* no key that is not a directory of the tree.
C3_DirectChildrenOfScannedDirs ==
  ScanReturnedOK =>
    /\ \A d \in tree.dirs :
         CountOf(dirFileCount, d) =
           IF HoldsIgnoreEntry(d) THEN 0
           ELSE Cardinality({ f \in tree.files :
                                ChildOf(f.path, d) /\ Recognized(f.path) })
    /\ DOMAIN dirFileCount \subseteq tree.dirs

\* a finished scan in which a directory and a sub-directory of it both hold
\* several image files
C3_Witness ==
  /\ ScanReturnedOK
  /\ \E d, e \in DOMAIN dirFileCount :
       /\ ChildOf(e, d)
       /\ dirFileCount[d] >= 2
       /\ dirFileCount[e] >= 2
       /\ dirFileCount[d] # dirFileCount[e]
       /\ \E g \in DOMAIN dirFileCount : ChildOf(g, e)

\* C4: the list printDirectoryFileCounts returns holds exactly the keys whose
\* count is greater than 5, each once, in order of non-increasing count.
C4_AcceptedExactlyAboveThreshold ==
  Reported =>
    /\ Range(acceptedDirs) = { d \in DOMAIN dirFileCount : dirFileCount[d] > 5 }
    /\ NoRepeats(acceptedDirs)
    /\ \A i, j \in 1..Len(acceptedDirs) :
         i < j => dirFileCount[acceptedDirs[i]] >= dirFileCount[acceptedDirs[j]]

\* a report over a map with a directory of exactly 6, one of exactly 5 and
\* one of more than 6
C4_Witness ==
  /\ Reported
  /\ \E d, e, g \in DOMAIN dirFileCount :
       /\ dirFileCount[d] = 6 /\ d \in Range(acceptedDirs)
       /\ dirFileCount[e] = 5 /\ e \notin Range(acceptedDirs)
       /\ dirFileCount[g] > 6 /\ g \in Range(acceptedDirs)

\* C5 as stated: a second run on the unchanged tree ends with the same total,
\* the same counts and the same accepted list, in the same order.
C5_AsStated ==
  (run > 1 /\ DoneOK) =>
    \A r \in 1..Len(prev) :
      prev[r].err = "nil" =>
        /\ prev[r].totalSize = totalSize
        /\ prev[r].dirFileCount = dirFileCount
        /\ prev[r].acceptedDirs = acceptedDirs

\* C5, amended: a second run on the unchanged tree ends with the same total,
\* the same counts, and an accepted list of the same directories with the
\* same count at every position; directories of equal count may change
\* places.
C5_SameUpToTies ==
  (run > 1 /\ DoneOK) =>
    \A r \in 1..Len(prev) :
      prev[r].err = "nil" =>
        /\ prev[r].totalSize = totalSize
        /\ prev[r].dirFileCount = dirFileCount
        /\ Len(prev[r].acceptedDirs) = Len(acceptedDirs)
        /\ Range(prev[r].acceptedDirs) = Range(acceptedDirs)
        /\ \A i \in 1..Len(acceptedDirs) :
             dirFileCount[prev[r].acceptedDirs[i]] = dirFileCount[acceptedDirs[i]]

\* a second run that accepted the directories of the first in another order
C5_Witness ==
  /\ run > 1
  /\ DoneOK
  /\ prev[1].err = "nil"
  /\ Len(acceptedDirs) >= 2
  /\ prev[1].acceptedDirs # acceptedDirs
  /\ prev[1].totalSize > 0

\* the "File:" lines a walk over the entries in s prints
ImagesAmong(s) ==
  SelectSeq(s, LAMBDA p : p \notin tree.dirs /\ ~ReadFails(p) /\ Recognized(p))

\* the kinds of line that belong to the summary and the report
SummaryKinds ==
  { "TotalBytes", "TotalKB", "TotalMB", "TotalGB", "Header", "Directory", "Bare" }

\* C6: once an entry has been visited whose read fails, the walk has ended
\* with that error: the failing entry is the last one visited, the "File:"
\* lines are those of the entries visited before it, no line of the summary
\* or the report is ever printed, and main ends with the error line last.
C6_ErrorAborts ==
  (\E i \in 1..Len(visited) : ReadFails(visited[i])) =>
    /\ err = "io"
    /\ \A i \in 1..Len(visited) : ReadFails(visited[i]) <=> i = Len(visited)
    /\ todo = << >>
    /\ PathsOf(LinesOf(out, "File")) = ImagesAmong(visited)
    /\ \A i \in 1..Len(out) : out[i].kind \notin SummaryKinds
    /\ pc \in {"walk", "done"}
    /\ pc = "walk" => LinesOf(out, "Error") = << >>
    /\ pc = "done" =>
         /\ out[Len(out)].kind = "Error"
         /\ Len(LinesOf(out, "Error")) = 1

\* a run ended by a failing read after "File:" lines were printed, with
\* entries of the tree left unvisited
C6_Witness ==
  /\ pc = "done"
  /\ err = "io"
  /\ Len(LinesOf(out, "File")) >= 2
  /\ \E f \in CountedFiles : f.path \notin Range(visited)

\* the place of each kind of line in a successful run's output
Rank(kind) ==
  CASE kind = "Scanning" -> 1
    [] kind = "File" -> 2
    [] kind = "TotalBytes" -> 3
    [] kind = "TotalKB" -> 4
    [] kind = "TotalMB" -> 5
    [] kind = "TotalGB" -> 6
    [] kind = "Header" -> 7
    [] kind = "Directory" -> 8
    [] kind = "Bare" -> 9
    [] OTHER -> 0

\* C7: while no error has occurred the output is, in this order, the
\* "Scanning" line, the "File:" lines, the four total lines, the header, the
\* "Directory:" lines and the bare lines; at the end of a successful run each
\* of the single lines is there once and the bare lines name the paths of the
\* "Directory:" lines in the same order.
C7_OutputOrder ==
  (Len(Args) >= 2 /\ err = "nil") =>
    /\ \A i, j \in 1..Len(out) :
         i < j =>
           \/ Rank(out[i].kind) < Rank(out[j].kind)
           \/ /\ out[i].kind = out[j].kind
              /\ out[i].kind \in {"File", "Directory", "Bare"}
    /\ \A i \in 1..Len(out) : Rank(out[i].kind) > 0
    /\ DoneOK =>
         /\ \A k \in {"Scanning", "TotalBytes", "TotalKB", "TotalMB", "TotalGB", "Header"} :
              Len(LinesOf(out, k)) = 1
         /\ PathsOf(LinesOf(out, "Bare")) = PathsOf(LinesOf(out, "Directory"))
         /\ PathsOf(LinesOf(out, "Bare")) = acceptedDirs

\* a successful run that printed files and two or more directories of
\* different counts
C7_Witness ==
  /\ DoneOK
  /\ Len(LinesOf(out, "File")) >= 12
  /\ \E i, j \in 1..Len(out) :
       /\ out[i].kind = "Directory"
       /\ out[j].kind = "Directory"
       /\ out[i].n > out[j].n

\* a traversal has been started
TraversalAttempted ==
  \/ pc = "walk"
  \/ visited # << >>
  \/ LinesOf(out, "Scanning") # << >>

\* with no argument the run prints the usage line and nothing else
UsageOnly ==
  (Len(Args) < 2 /\ pc # "start") =>
    /\ pc = "done"
    /\ out = << Line("Usage", << >>, 0) >>
    /\ ~TraversalAttempted

\* C8 as stated: with no argument only the usage line is printed, and a
\* traversal is attempted only when exactly one argument is given.
C8_AsStated ==
  /\ UsageOnly
  /\ TraversalAttempted => Len(Args) = 2

\* C8, amended: with no argument only the usage line is printed and no
\* traversal is attempted; with one argument or more the traversal is
\* attempted on the first argument and the others are not looked at.
C8_AtLeastOneArgument ==
  /\ UsageOnly
  /\ TraversalAttempted => Len(Args) >= 2
  /\ (Len(Args) >= 2 /\ pc # "start") =>
       /\ out[1] = Line("Scanning", Args[2], 0)
       /\ LinesOf(out, "Usage") = << >>
       /\ visited # << >> => visited[1] = Args[2]

\* a run without arguments that has printed the usage line and returned
C8_Witness ==
  /\ Len(Args) < 2
  /\ pc = "done"
  /\ out = << Line("Usage", << >>, 0) >>
  /\ tree.files # {}

\* the entries a walk from the root reaches: the root and everything beneath
\* it that is not beneath an ignored directory
Reachable ==
  { e \in tree.dirs \cup { f.path : f \in tree.files } :
      (e = Root \/ Beneath(e, Root)) /\ ~UnderIgnoredDir(e) }

\* no entry visited twice; a successful walk has visited every reachable
\* entry; a failed one stopped at its first failing read
VisitsOnce ==
  /\ NoRepeats(visited)
  /\ ScanReturnedOK => Range(visited) = Reachable
  /\ (pc = "done" /\ err = "io") =>
       /\ Range(visited) \subseteq Reachable
       /\ \A i \in 1..Len(visited) : ReadFails(visited[i]) <=> i = Len(visited)

\* C9: every run ends; until then no entry is visited twice, a run that ends
\* without error has visited every entry that is not beneath an ignored
\* directory, and a run that ends with an error stopped at the first
\* failing read.
C9_Terminates == <>(pc = "done") /\ []VisitsOnce

\* a run that ended without error after a long walk that skipped directories
C9_Witness ==
  /\ DoneOK
  /\ Len(visited) >= 20
  /\ \E d \in IgnoredDirs : d \in Range(visited)
  /\ Cardinality(Reachable) < Cardinality(tree.dirs) + Cardinality(tree.files)

\* the accumulators agree with the "File:" lines printed so far
Agree ==
  /\ totalSize = SumN(LinesOf(out, "File"))
  /\ SumCounts(dirFileCount, DOMAIN dirFileCount) = Len(LinesOf(out, "File"))
  /\ \A k \in DOMAIN dirFileCount : dirFileCount[k] >= 1

\* neither the total nor any count goes down
Grow ==
  /\ totalSize' >= totalSize
  /\ \A k \in DOMAIN dirFileCount :
       k \in DOMAIN dirFileCount' /\ dirFileCount'[k] >= dirFileCount[k]

\* C10: at every moment the total is the sum of the sizes on the "File:" lines
\* printed so far, the counts add up to the number of those lines and every
\* key has a count of at least 1; no step lowers the total or a count.
C10_AccumulatorsAgree == []Agree /\ [][Grow]_vars

\* the walk ended by an error with files counted in two directories
C10_Witness ==
  /\ pc = "walk"
  /\ err = "io"
  /\ Cardinality(DOMAIN dirFileCount) >= 2
  /\ totalSize > 0
  /\ \E i \in 1..Len(out) : out[i].kind = "File" /\ out[i].n = 0

====
